---- MODULE Spec2Model ----
(***************************************************************************)
(* Functional task scheduler (functional-version/src/task-operations.ts,   *)
(* types.ts, state.ts, composition.ts).  Every operation is a pure         *)
(* transformation of an                                                    *)
(* immutable TaskState { tasks: ReadonlyArray<Task> }.                      *)
(*                                                                         *)
(* Encoding of JavaScript values:                                          *)
(*   - an optional slot (deadline?, completedAt?, the fields of a          *)
(*     TaskUpdate) is a sequence: << >> is undefined, <<v>> is the value v; *)
(*   - a number is an integer or the one non-integer Fraction (2.5);       *)
(*   - a Date is its getTime() value, a natural number; null (admitted     *)
(*     only by TaskUpdate.deadline) is the out-of-band value Null;         *)
(*   - a title is a sequence of one-character strings, so that trim() is   *)
(*     computed and not assumed;                                           *)
(*   - randomUUID() is a value never generated before: the counter nextId. *)
(* An operation that takes a state is modelled by an operator returning    *)
(* the record [res, arg]: res is what the call returns, arg is the content *)
(* of the object passed in as it is once the call has returned.            *)
(***************************************************************************)
EXTENDS Integers, Sequences, FiniteSets, TLC

\* ------------------------------------------------------------------ bounds
MaxTasks == 2
MaxTime  == 1
MaxIds   == MaxTasks + 1
MaxListLen == 3

\* ------------------------------------------------------------------ values
Null == -1

Some(v) == <<v>>
None    == << >>

Statuses == {"pending", "in-progress", "completed"}

\* A number is an integer, or Fraction, which stands for 2.5: the type of a
\* priority is number, not integer.  Numbers are compared, and subtracted for
\* a sort's comparator (of which only the sign matters), on twice their value.
Fraction == 25

Twice(x) == IF x = Fraction THEN 5 ELSE 2 * x

Lt(x, y) == Twice(x) < Twice(y)

Gt(x, y) == Twice(x) > Twice(y)

Whitespace == {" "}

\* ------------------------------------------------------------ String.trim
RECURSIVE TrimStart(_)
TrimStart(s) ==
  IF s = << >> THEN << >>
  ELSE IF Head(s) \in Whitespace THEN TrimStart(Tail(s)) ELSE s

RECURSIVE TrimEnd(_)
TrimEnd(s) ==
  IF s = << >> THEN << >>
  ELSE IF s[Len(s)] \in Whitespace THEN TrimEnd(SubSeq(s, 1, Len(s) - 1)) ELSE s

Trim(s) == TrimEnd(TrimStart(s))

\* ---------------------------------------------------------------- state.ts
createInitialState == << >>

\* ------------------------------------------------------- task-operations.ts
\* Outcome of a call: a returned value, or a raised Error (fail fast).
Return(v) == [ threw |-> FALSE, value |-> v ]
Throw(m)  == [ threw |-> TRUE,  value |-> m ]

\* Result<T, E>
Ok(v)  == [ ok |-> TRUE,  value |-> v ]
Err(m) == [ ok |-> FALSE, value |-> m ]

\* Array.prototype.some over the task array.  (Array.prototype.map is
\* written [ i \in 1 .. Len(s) |-> f(s[i]) ] where it is used.)
SomeTask(tasks, taskId) == \E i \in 1 .. Len(tasks) : tasks[i].id = taskId

\* a ?? b on an optional slot that cannot hold null.
Coalesce(a, b) == IF a = None THEN b ELSE a[1]

\* a ?? b on TaskUpdate.deadline (Date | null | undefined) against
\* task.deadline (Date | undefined): null and undefined both fall through.
CoalesceDeadline(a, b) == IF a = None \/ a = Some(Null) THEN b ELSE a

\* Mutant: the title is tested without trim().
createTask_noTrim(id, clock, title, description, priority, deadline) ==
  IF Lt(priority, 1) \/ Gt(priority, 5)
  THEN Throw("Priority must be between 1 and 5")
  ELSE IF title = << >>
  THEN Throw("Title cannot be empty")
  ELSE Return([ id          |-> id,
                title       |-> title,
                description |-> description,
                priority    |-> priority,
                deadline    |-> deadline,
                status      |-> "pending",
                createdAt   |-> clock,
                completedAt |-> None ])

createTask(id, clock, title, description, priority, deadline) ==
  IF Lt(priority, 1) \/ Gt(priority, 5)
  THEN Throw("Priority must be between 1 and 5")
  ELSE IF Trim(title) = << >>
  THEN Throw("Title cannot be empty")
  ELSE Return([ id          |-> id,
                title       |-> title,
                description |-> description,
                priority    |-> priority,
                deadline    |-> deadline,
                status      |-> "pending",
                createdAt   |-> clock,
                completedAt |-> None ])

\* Mutant: the new task is put first (unshift) instead of last.
addTask_prepend(s, id, clock, title, description, priority, deadline) ==
  LET t == createTask(id, clock, title, description, priority, deadline)
  IN  IF t.threw
      THEN [ res |-> t, arg |-> s ]
      ELSE [ res |-> Return(<<t.value>> \o s), arg |-> s ]

addTask(s, id, clock, title, description, priority, deadline) ==
  LET t == createTask(id, clock, title, description, priority, deadline)
  IN  IF t.threw
      THEN [ res |-> t, arg |-> s ]
      ELSE [ res |-> Return(s \o <<t.value>>), arg |-> s ]

\* Mutant: the filter drops everything from the match on.
removeTask_truncate(s, taskId) ==
  LET found == { i \in 1 .. Len(s) : s[i].id = taskId }
  IN  [ res |-> IF found = {} THEN s
                ELSE SubSeq(s, 1, (CHOOSE i \in found : \A j \in found : i <= j) - 1),
        arg |-> s ]

removeTask(s, taskId) ==
  [ res |-> SelectSeq(s, LAMBDA task : task.id # taskId), arg |-> s ]

\* Mutant: the matching task is assigned to in place, so the array passed in
\* shows the change too.
updateTaskStatus_inPlace(s, taskId, newStatus, clock) ==
  LET f(task) ==
        IF task.id = taskId
        THEN [ task EXCEPT !.status = newStatus,
                           !.completedAt = IF newStatus = "completed"
                                           THEN Some(clock)
                                           ELSE task.completedAt ]
        ELSE task
  IN  [ res |-> [ i \in 1 .. Len(s) |-> f(s[i]) ], arg |-> [ i \in 1 .. Len(s) |-> f(s[i]) ] ]

\* Mutant: a status other than completed clears the completion timestamp.
updateTaskStatus_clears(s, taskId, newStatus, clock) ==
  LET f(task) ==
        IF task.id = taskId
        THEN [ task EXCEPT !.status = newStatus,
                           !.completedAt = IF newStatus = "completed"
                                           THEN Some(clock)
                                           ELSE None ]
        ELSE task
  IN  [ res |-> [ i \in 1 .. Len(s) |-> f(s[i]) ], arg |-> s ]

updateTaskStatus(s, taskId, newStatus, clock) ==
  LET f(task) ==
        IF task.id = taskId
        THEN [ task EXCEPT !.status = newStatus,
                           !.completedAt = IF newStatus = "completed"
                                           THEN Some(clock)
                                           ELSE task.completedAt ]
        ELSE task
  IN  [ res |-> [ i \in 1 .. Len(s) |-> f(s[i]) ], arg |-> s ]

markInProgress(s, taskId, clock) == updateTaskStatus(s, taskId, "in-progress", clock)

\* Mutant: markCompleted only starts the task.
markCompleted_starts(s, taskId, clock) == updateTaskStatus(s, taskId, "in-progress", clock)

markCompleted(s, taskId, clock) == updateTaskStatus(s, taskId, "completed", clock)

\* Mutant: the priority is validated before the task is looked up.
updateTask_priorityFirst(s, taskId, taskUpdate) ==
  LET taskExists == SomeTask(s, taskId)
      f(task) ==
        IF task.id = taskId
        THEN [ task EXCEPT
                 !.title       = Coalesce(taskUpdate.title, task.title),
                 !.description = Coalesce(taskUpdate.description, task.description),
                 !.priority    = Coalesce(taskUpdate.priority, task.priority),
                 !.deadline    = CoalesceDeadline(taskUpdate.deadline, task.deadline) ]
        ELSE task
  IN  IF /\ taskUpdate.priority # None
         /\ (Lt(taskUpdate.priority[1], 1) \/ Gt(taskUpdate.priority[1], 5))
      THEN [ res |-> Err("Priority must be between 1 and 5"), arg |-> s ]
      ELSE IF ~taskExists
      THEN [ res |-> Err("Task with id not found"), arg |-> s ]
      ELSE [ res |-> Ok([ i \in 1 .. Len(s) |-> f(s[i]) ]), arg |-> s ]

updateTask(s, taskId, taskUpdate) ==
  LET taskExists == SomeTask(s, taskId)
      f(task) ==
        IF task.id = taskId
        THEN [ task EXCEPT
                 !.title       = Coalesce(taskUpdate.title, task.title),
                 !.description = Coalesce(taskUpdate.description, task.description),
                 !.priority    = Coalesce(taskUpdate.priority, task.priority),
                 !.deadline    = CoalesceDeadline(taskUpdate.deadline, task.deadline) ]
        ELSE task
  IN  IF ~taskExists
      THEN [ res |-> Err("Task with id not found"), arg |-> s ]
      ELSE IF /\ taskUpdate.priority # None
              /\ (Lt(taskUpdate.priority[1], 1) \/ Gt(taskUpdate.priority[1], 5))
      THEN [ res |-> Err("Priority must be between 1 and 5"), arg |-> s ]
      ELSE [ res |-> Ok([ i \in 1 .. Len(s) |-> f(s[i]) ]), arg |-> s ]

\* Mutant: the guard on the status is missing.
markMultipleCompleted_noGuard(s, taskIds, clock) ==
  LET idSet == { taskIds[i] : i \in 1 .. Len(taskIds) }
      f(task) ==
        IF task.id \in idSet
        THEN [ task EXCEPT !.status = "completed", !.completedAt = Some(clock) ]
        ELSE task
  IN  [ res |-> [ i \in 1 .. Len(s) |-> f(s[i]) ], arg |-> s ]

\* Mutant: the batch sets the status and forgets the timestamp.
markMultipleCompleted_noTimestamp(s, taskIds, clock) ==
  LET idSet == { taskIds[i] : i \in 1 .. Len(taskIds) }
      f(task) ==
        IF task.id \in idSet /\ task.status # "completed"
        THEN [ task EXCEPT !.status = "completed" ]
        ELSE task
  IN  [ res |-> [ i \in 1 .. Len(s) |-> f(s[i]) ], arg |-> s ]

markMultipleCompleted(s, taskIds, clock) ==
  LET idSet == { taskIds[i] : i \in 1 .. Len(taskIds) }
      f(task) ==
        IF task.id \in idSet /\ task.status # "completed"
        THEN [ task EXCEPT !.status = "completed", !.completedAt = Some(clock) ]
        ELSE task
  IN  [ res |-> [ i \in 1 .. Len(s) |-> f(s[i]) ], arg |-> s ]

\* Mutant: the upper end of the range is not checked.
updatePriorities_noUpperBound(s, taskIds, newPriority) ==
  LET idSet == { taskIds[i] : i \in 1 .. Len(taskIds) }
      f(task) ==
        IF task.id \in idSet THEN [ task EXCEPT !.priority = newPriority ] ELSE task
  IN  IF Lt(newPriority, 1)
      THEN [ res |-> Err("Priority must be between 1 and 5"), arg |-> s ]
      ELSE [ res |-> Ok([ i \in 1 .. Len(s) |-> f(s[i]) ]), arg |-> s ]

updatePriorities(s, taskIds, newPriority) ==
  LET idSet == { taskIds[i] : i \in 1 .. Len(taskIds) }
      f(task) ==
        IF task.id \in idSet THEN [ task EXCEPT !.priority = newPriority ] ELSE task
  IN  IF Lt(newPriority, 1) \/ Gt(newPriority, 5)
      THEN [ res |-> Err("Priority must be between 1 and 5"), arg |-> s ]
      ELSE [ res |-> Ok([ i \in 1 .. Len(s) |-> f(s[i]) ]), arg |-> s ]

getTask(s, taskId) ==
  LET found == { i \in 1 .. Len(s) : s[i].id = taskId }
  IN  [ res |-> IF found = {}
                THEN Err("Task not found")
                ELSE Ok(s[CHOOSE i \in found : \A j \in found : i <= j]),
        arg |-> s ]

getAllTasks(s) == [ res |-> s, arg |-> s ]

getTasksByStatus(s, status) ==
  [ res |-> SelectSeq(s, LAMBDA task : task.status = status), arg |-> s ]

getPendingTasks(s) == getTasksByStatus(s, "pending")

getInProgressTasks(s) == getTasksByStatus(s, "in-progress")

getCompletedTasks(s) == getTasksByStatus(s, "completed")

\* [...tasks].sort(cmp): a stable sort (ECMAScript 2019) of a copy, where
\* cmp[i, j] is the comparator's value on the elements at positions i and j.
\* The element at input position i lands after every element that compares
\* smaller and after every equal element that precedes it.
\* Mutant: a sort that is not stable (equal elements come out reversed).
SortBy_unstable(tasks, cmp) ==
  LET n == Len(tasks)
      rank(i) == 1 + Cardinality({ j \in 1 .. n :
                       \/ cmp[j, i] < 0
                       \/ (cmp[j, i] = 0 /\ j > i) })
  IN  [ k \in 1 .. n |-> tasks[CHOOSE i \in 1 .. n : rank(i) = k] ]

SortBy(tasks, cmp) ==
  LET n == Len(tasks)
      rank(i) == 1 + Cardinality({ j \in 1 .. n :
                       \/ cmp[j, i] < 0
                       \/ (cmp[j, i] = 0 /\ j < i) })
  IN  [ k \in 1 .. n |-> tasks[CHOOSE i \in 1 .. n : rank(i) = k] ]

\* Mutant: the array passed in is sorted in place (no copy).
sortByPriority_inPlace(tasks) ==
  LET cmp == [ i \in 1 .. Len(tasks), j \in 1 .. Len(tasks) |->
                 Twice(tasks[j].priority) - Twice(tasks[i].priority) ]
  IN  [ res |-> SortBy(tasks, cmp), arg |-> SortBy(tasks, cmp) ]

sortByPriority(tasks) ==
  LET cmp == [ i \in 1 .. Len(tasks), j \in 1 .. Len(tasks) |->
                 Twice(tasks[j].priority) - Twice(tasks[i].priority) ]
  IN  [ res |-> SortBy(tasks, cmp), arg |-> tasks ]

\* Mutant: the tasks without a deadline are put first.
sortByDeadline_undatedFirst(tasks) ==
  LET tasksWithoutDeadline == SelectSeq(tasks, LAMBDA task : task.deadline = None)
      tasksWithDeadline    == SelectSeq(tasks, LAMBDA task : task.deadline # None)
      cmp == [ i \in 1 .. Len(tasksWithDeadline), j \in 1 .. Len(tasksWithDeadline) |->
                 tasksWithDeadline[i].deadline[1] - tasksWithDeadline[j].deadline[1] ]
      sortedWithDeadlines  == SortBy(tasksWithDeadline, cmp)
  IN  [ res |-> tasksWithoutDeadline \o sortedWithDeadlines, arg |-> tasks ]

sortByDeadline(tasks) ==
  LET tasksWithoutDeadline == SelectSeq(tasks, LAMBDA task : task.deadline = None)
      tasksWithDeadline    == SelectSeq(tasks, LAMBDA task : task.deadline # None)
      cmp == [ i \in 1 .. Len(tasksWithDeadline), j \in 1 .. Len(tasksWithDeadline) |->
                 tasksWithDeadline[i].deadline[1] - tasksWithDeadline[j].deadline[1] ]
      sortedWithDeadlines  == SortBy(tasksWithDeadline, cmp)
  IN  [ res |-> sortedWithDeadlines \o tasksWithoutDeadline, arg |-> tasks ]

sortTasksByPriority(s) == sortByPriority(s)

sortTasksByDeadline(s) == sortByDeadline(s)

isOverdue_inclusive(task, clock) ==
  /\ task.deadline # None
  /\ task.status # "completed"
  /\ task.deadline[1] <= clock

isOverdue(task, clock) ==
  /\ task.deadline # None
  /\ task.status # "completed"
  /\ task.deadline[1] < clock

getOverdueTasks(s, clock) ==
  [ res |-> SelectSeq(s, LAMBDA task : isOverdue(task, clock)), arg |-> s ]

\* sorted[0] ?? null: None stands for null.
\* Mutant: the tasks are not filtered by status before the sort.
getNextTask_anyStatus(s) ==
  LET pendingTasks     == getAllTasks(s).res
      sortedByPriority == sortByPriority(pendingTasks).res
  IN  [ res |-> IF sortedByPriority = << >> THEN None ELSE Some(sortedByPriority[1]),
        arg |-> s ]

getNextTask(s) ==
  LET pendingTasks     == getPendingTasks(s).res
      sortedByPriority == sortByPriority(pendingTasks).res
  IN  [ res |-> IF sortedByPriority = << >> THEN None ELSE Some(sortedByPriority[1]),
        arg |-> s ]

\* Mutant: the last task of the sorted list is taken instead of the first.
getNextTaskByDeadline_last(s) ==
  LET pendingTasks     == getPendingTasks(s).res
      sortedByDeadline == sortByDeadline(pendingTasks).res
  IN  [ res |-> IF sortedByDeadline = << >> THEN None
                ELSE Some(sortedByDeadline[Len(sortedByDeadline)]),
        arg |-> s ]

getNextTaskByDeadline(s) ==
  LET pendingTasks     == getPendingTasks(s).res
      sortedByDeadline == sortByDeadline(pendingTasks).res
  IN  [ res |-> IF sortedByDeadline = << >> THEN None ELSE Some(sortedByDeadline[1]),
        arg |-> s ]

\* Mutant: the in-progress branch tests a status no task has.
StatsStep_missedBranch(stats, task, clock) ==
  [ total      |-> stats.total + 1,
    pending    |-> stats.pending + (IF task.status = "pending" THEN 1 ELSE 0),
    inProgress |-> stats.inProgress + (IF task.status = "in_progress" THEN 1 ELSE 0),
    completed  |-> stats.completed + (IF task.status = "completed" THEN 1 ELSE 0),
    overdue    |-> stats.overdue + (IF isOverdue(task, clock) THEN 1 ELSE 0) ]

\* The reducer of getStatistics, and Array.prototype.reduce over the tasks.
StatsStep(stats, task, clock) ==
  [ total      |-> stats.total + 1,
    pending    |-> stats.pending + (IF task.status = "pending" THEN 1 ELSE 0),
    inProgress |-> stats.inProgress + (IF task.status = "in-progress" THEN 1 ELSE 0),
    completed  |-> stats.completed + (IF task.status = "completed" THEN 1 ELSE 0),
    overdue    |-> stats.overdue + (IF isOverdue(task, clock) THEN 1 ELSE 0) ]

RECURSIVE StatsReduce(_, _, _)
StatsReduce(stats, tasks, clock) ==
  IF tasks = << >> THEN stats
  ELSE StatsReduce(StatsStep(stats, Head(tasks), clock), Tail(tasks), clock)

getStatistics(s, clock) ==
  [ res |-> StatsReduce([ total |-> 0, pending |-> 0, inProgress |-> 0,
                          completed |-> 0, overdue |-> 0 ], s, clock),
    arg |-> s ]

\* ----------------------------------------------------------- composition.ts
\* items.slice(0, n): a negative n counts from the end of the array.
take(n, items) ==
  LET len == Len(items)
      end == IF n < 0 THEN (IF len + n < 0 THEN 0 ELSE len + n)
             ELSE (IF n > len THEN len ELSE n)
  IN  SubSeq(items, 1, end)

\* Mutant: the pending tasks are not sorted before the first n are taken.
getTopPriorityTasks_noSort(s, n) ==
  [ res |-> take(n, getPendingTasks(s).res), arg |-> s ]

\* fpPipe(state, getPendingTasks, sortByPriority, take(n))
getTopPriorityTasks(s, n) ==
  [ res |-> take(n, sortByPriority(getPendingTasks(s).res).res), arg |-> s ]

\* ------------------------------------------------------------- the program
\* state    the TaskState the caller holds
\* now      the wall clock read by new Date()
\* nextId   the identifiers randomUUID() has not produced yet
\* op, args the last call and its arguments
\* out      how it ended: "ok", "fail" (a Result failure), "throw"
\* ret      what it returned (or the message of the Error)
\* prev     the content of the state passed to the last call, before the call
\* argAfter the content of that same object once the call has returned
VARIABLES state, now, nextId, op, args, out, ret, prev, argAfter

vars == <<state, now, nextId, op, args, out, ret, prev, argAfter>>

Init ==
  /\ state    = createInitialState
  /\ now      = 0
  /\ nextId   = 1
  /\ op       = "createInitialState"
  /\ args     = << >>
  /\ out      = "ok"
  /\ ret      = createInitialState
  /\ prev     = createInitialState
  /\ argAfter = createInitialState

\* The wall clock advances between calls; no call has been made on the state
\* since.
Tick ==
  /\ now < MaxTime
  /\ now'      = now + 1
  /\ op'       = "tick"
  /\ args'     = << >>
  /\ out'      = "ok"
  /\ ret'      = << >>
  /\ prev'     = state
  /\ argAfter' = state
  /\ UNCHANGED <<state, nextId>>

\* A call that returns a new TaskState: the caller goes on with it.
Returned(name, a, r) ==
  /\ op'       = name
  /\ args'     = a
  /\ out'      = "ok"
  /\ ret'      = r.res
  /\ state'    = r.res
  /\ prev'     = state
  /\ argAfter' = r.arg
  /\ UNCHANGED now

\* A call that returns a Result<TaskState>: on failure the caller keeps the
\* state object it passed in.
ReturnedResult(name, a, r) ==
  /\ op'       = name
  /\ args'     = a
  /\ out'      = IF r.res.ok THEN "ok" ELSE "fail"
  /\ ret'      = r.res.value
  /\ state'    = IF r.res.ok THEN r.res.value ELSE r.arg
  /\ prev'     = state
  /\ argAfter' = r.arg
  /\ UNCHANGED now

\* A query: the caller keeps the state object it passed in.
Queried(name, a, r) ==
  /\ op'       = name
  /\ args'     = a
  /\ out'      = "ok"
  /\ ret'      = r.res
  /\ state'    = r.arg
  /\ prev'     = state
  /\ argAfter' = r.arg
  /\ UNCHANGED <<now, nextId>>

AddTask(Inputs) ==
  \E in \in Inputs :
    LET r == addTask(state, nextId, now, in.title, in.description,
                     in.priority, in.deadline)
    IN  /\ Len(state) < MaxTasks
        /\ nextId <= MaxIds
        /\ op'       = "addTask"
        /\ args'     = in
        /\ out'      = IF r.res.threw THEN "throw" ELSE "ok"
        /\ ret'      = r.res.value
        /\ state'    = IF r.res.threw THEN r.arg ELSE r.res.value
        /\ nextId'   = IF r.res.threw THEN nextId ELSE nextId + 1
        /\ prev'     = state
        /\ argAfter' = r.arg
        /\ UNCHANGED now

RemoveTask(Ids) ==
  \E taskId \in Ids :
    /\ Returned("removeTask", [ taskId |-> taskId ], removeTask(state, taskId))
    /\ UNCHANGED nextId

UpdateTaskStatus(Ids) ==
  \E taskId \in Ids, newStatus \in Statuses :
    /\ Returned("updateTaskStatus", [ taskId |-> taskId, newStatus |-> newStatus ],
                updateTaskStatus(state, taskId, newStatus, now))
    /\ UNCHANGED nextId

MarkInProgress(Ids) ==
  \E taskId \in Ids :
    /\ Returned("markInProgress", [ taskId |-> taskId ],
                markInProgress(state, taskId, now))
    /\ UNCHANGED nextId

MarkCompleted(Ids) ==
  \E taskId \in Ids :
    /\ Returned("markCompleted", [ taskId |-> taskId ],
                markCompleted(state, taskId, now))
    /\ UNCHANGED nextId

UpdateTask(Ids, Updates) ==
  \E taskId \in Ids, taskUpdate \in Updates :
    /\ ReturnedResult("updateTask", [ taskId |-> taskId, taskUpdate |-> taskUpdate ],
                      updateTask(state, taskId, taskUpdate))
    /\ UNCHANGED nextId

MarkMultipleCompleted(IdLists) ==
  \E taskIds \in IdLists :
    /\ Returned("markMultipleCompleted", [ taskIds |-> taskIds ],
                markMultipleCompleted(state, taskIds, now))
    /\ UNCHANGED nextId

UpdatePriorities(IdLists, Priorities) ==
  \E taskIds \in IdLists, newPriority \in Priorities :
    /\ ReturnedResult("updatePriorities",
                      [ taskIds |-> taskIds, newPriority |-> newPriority ],
                      updatePriorities(state, taskIds, newPriority))
    /\ UNCHANGED nextId

GetTask(Ids) ==
  \E taskId \in Ids :
    LET r == getTask(state, taskId)
    IN  /\ op'       = "getTask"
        /\ args'     = [ taskId |-> taskId ]
        /\ out'      = IF r.res.ok THEN "ok" ELSE "fail"
        /\ ret'      = r.res.value
        /\ state'    = r.arg
        /\ prev'     = state
        /\ argAfter' = r.arg
        /\ UNCHANGED <<now, nextId>>

GetAllTasks == Queried("getAllTasks", << >>, getAllTasks(state))

GetTasksByStatus ==
  \E status \in Statuses :
    Queried("getTasksByStatus", [ status |-> status ], getTasksByStatus(state, status))

GetPendingTasks == Queried("getPendingTasks", << >>, getPendingTasks(state))

GetInProgressTasks == Queried("getInProgressTasks", << >>, getInProgressTasks(state))

GetCompletedTasks == Queried("getCompletedTasks", << >>, getCompletedTasks(state))

SortTasksByPriority == Queried("sortTasksByPriority", << >>, sortTasksByPriority(state))

SortTasksByDeadline == Queried("sortTasksByDeadline", << >>, sortTasksByDeadline(state))

GetOverdueTasks == Queried("getOverdueTasks", << >>, getOverdueTasks(state, now))

GetNextTask == Queried("getNextTask", << >>, getNextTask(state))

GetNextTaskByDeadline ==
  Queried("getNextTaskByDeadline", << >>, getNextTaskByDeadline(state))

GetStatistics == Queried("getStatistics", << >>, getStatistics(state, now))

GetTopPriorityTasks(Ns) ==
  \E n \in Ns :
    Queried("getTopPriorityTasks", [ n |-> n ], getTopPriorityTasks(state, n))

\* ------------------------------------------------------------------ inputs
IdInputs     == 1 .. MaxIds
IdListInputs == { << >>, <<1>>, <<1, 2>>, <<2, 1, 2, MaxIds>> }

\* Creation inputs: two valid ones, and every way of being invalid (a
\* blank title, a priority just outside 1..5, both).
TaskA == [ title |-> <<"a">>, description |-> "d", priority |-> 1, deadline |-> None ]
TaskB == [ title |-> <<" ", "b">>, description |-> "", priority |-> 5,
           deadline |-> Some(0) ]

CreateInputs ==
  { TaskA, TaskB,
    [ TaskA EXCEPT !.title = << >> ],
    [ TaskB EXCEPT !.title = <<" ">> ],
    [ TaskA EXCEPT !.priority = 0 ],
    [ TaskB EXCEPT !.priority = 6 ],
    [ TaskA EXCEPT !.title = <<" ", " ">>, !.priority = 6 ] }

PriorityInputs == { 0, 1, 5, 6 }

\* TaskUpdate values: nothing, each field alone, everything, and the
\* out-of-range priorities.
NoUpdate == [ title |-> None, description |-> None, priority |-> None, deadline |-> None ]

UpdateInputs ==
  { NoUpdate,
    [ NoUpdate EXCEPT !.title = Some(<<"c">>) ],
    [ NoUpdate EXCEPT !.description = Some("e") ],
    [ NoUpdate EXCEPT !.priority = Some(3) ],
    [ NoUpdate EXCEPT !.priority = Some(0) ],
    [ NoUpdate EXCEPT !.priority = Some(6) ],
    [ NoUpdate EXCEPT !.deadline = Some(1) ],
    [ NoUpdate EXCEPT !.deadline = Some(Null) ],
    [ title |-> Some(<<"c">>), description |-> Some("e"),
      priority |-> Some(3), deadline |-> Some(1) ] }

\* ---------------------------------------------------------- specifications
\* Creation and removal, over every creation input.
NextAdd ==
  \/ Tick
  \/ AddTask(CreateInputs)
  \/ RemoveTask(IdInputs)

SpecAdd == Init /\ [][NextAdd]_vars

\* Status changes and the clock.
NextStatus ==
  \/ Tick
  \/ AddTask({ TaskA })
  \/ UpdateTaskStatus(IdInputs)
  \/ MarkInProgress(IdInputs)
  \/ MarkCompleted(IdInputs)
  \/ MarkMultipleCompleted(IdListInputs)

SpecStatus == Init /\ [][NextStatus]_vars

\* Updates of the other fields.
NextUpdate ==
  \/ AddTask({ TaskB })
  \/ UpdateTask(IdInputs, UpdateInputs)

SpecUpdate == Init /\ [][NextUpdate]_vars

\* Batch priority updates.
NextPriorities ==
  \/ AddTask({ TaskA, TaskB })
  \/ MarkCompleted({ 1 })
  \/ UpdatePriorities(IdListInputs, PriorityInputs)

SpecPriorities == Init /\ [][NextPriorities]_vars

\* Every operation of the module.
Next ==
  \/ AddTask({ TaskB, [ TaskA EXCEPT !.priority = 0 ] })
  \/ RemoveTask({ 1 })
  \/ UpdateTaskStatus({ 1, 2 })
  \/ MarkInProgress({ 2 })
  \/ MarkCompleted({ 2 })
  \/ UpdateTask({ 1, 2 }, { [ NoUpdate EXCEPT !.priority = Some(3) ],
                           [ NoUpdate EXCEPT !.priority = Some(6) ] })
  \/ MarkMultipleCompleted({ <<2, 2, MaxIds>> })
  \/ UpdatePriorities({ <<1, 2>> }, { 0, 3 })
  \/ GetTask({ 1, 2 })
  \/ GetAllTasks
  \/ GetTasksByStatus
  \/ GetPendingTasks
  \/ GetInProgressTasks
  \/ GetCompletedTasks
  \/ SortTasksByPriority
  \/ SortTasksByDeadline
  \/ GetOverdueTasks
  \/ GetNextTask
  \/ GetNextTaskByDeadline
  \/ GetStatistics

Spec == Init /\ [][Next]_vars

\* The demo's two tasks (index.ts style: one urgent task without a deadline,
\* one minor task whose deadline is the first instant), and a task whose
\* deadline is the last instant of the clock.
ScriptA == [ title |-> <<"a">>, description |-> "d", priority |-> 5, deadline |-> None ]
ScriptB == [ title |-> <<"b">>, description |-> "d", priority |-> 2, deadline |-> Some(0) ]
TaskC   == [ title |-> <<"c">>, description |-> "", priority |-> 2,
             deadline |-> Some(MaxTime) ]

\* The clock-dependent queries over states built by additions and status
\* changes while time passes.
NextOverdue ==
  \/ Tick
  \/ AddTask({ScriptA, ScriptB, TaskC})
  \/ MarkInProgress({1})
  \/ MarkCompleted({1, 2})
  \/ GetNextTask
  \/ GetOverdueTasks
  \/ GetStatistics

SpecOverdue == Init /\ [][NextOverdue]_vars

\* A task as an earlier run of the program has left it: the i-th task
\* generated, created at instant 0 and, when completed, completed at once.
GivenTask(i, priority, deadline, status) ==
  [ id          |-> i,
    title       |-> <<"a">>,
    description |-> "d",
    priority    |-> priority,
    deadline    |-> deadline,
    status      |-> status,
    createdAt   |-> 0,
    completedAt |-> IF status = "completed" THEN Some(0) ELSE None ]

\* The task lists of at most MaxListLen such tasks, each of one of the given
\* shapes <<priority, deadline, status>>.
GivenLists(Shapes) ==
  UNION { { [ i \in 1 .. n |-> GivenTask(i, f[i][1], f[i][2], f[i][3]) ] :
              f \in [ 1 .. n -> Shapes ] } :
          n \in 0 .. MaxListLen }

\* The program is handed one of the given lists as its state.
Given(Lists) ==
  /\ state    \in Lists
  /\ now      = 0
  /\ nextId   = Len(state) + 1
  /\ op       = "given"
  /\ args     = << >>
  /\ out      = "ok"
  /\ ret      = << >>
  /\ prev     = state
  /\ argAfter = state

InitSort == Given(GivenLists({1, 3, 5} \X {None, Some(0), Some(1)} \X {"pending"}))

\* The two sorts applied to every given list.
NextSort ==
  \/ SortTasksByPriority
  \/ SortTasksByDeadline

SpecSort == InitSort /\ [][NextSort]_vars

\* Pending tasks of every priority and deadline drawn, and tasks that are not
\* pending with the top priority and the earliest deadline.
InitSelect ==
  Given(GivenLists(({1, 5} \X {None, Some(0), Some(1)} \X {"pending"})
                     \cup ({5} \X {Some(0)} \X {"in-progress", "completed"})))

\* The two "next task" selections applied to every given state.
NextSelect ==
  \/ GetNextTask
  \/ GetNextTaskByDeadline

SpecSelect == InitSelect /\ [][NextSelect]_vars

\* The operations that write a task's fields, called with numbers that are
\* not integers and with blank titles among their inputs.
FractionTask == [ TaskA EXCEPT !.priority = Fraction ]

DataUpdateInputs ==
  { [ NoUpdate EXCEPT !.priority = Some(3) ],
    [ NoUpdate EXCEPT !.priority = Some(6) ],
    [ NoUpdate EXCEPT !.priority = Some(Fraction) ],
    [ NoUpdate EXCEPT !.title = Some(<<"c">>) ],
    [ NoUpdate EXCEPT !.title = Some(<<" ">>) ],
    [ NoUpdate EXCEPT !.title = Some(<< >>) ] }

NextData ==
  \/ AddTask({TaskA, FractionTask, [ TaskA EXCEPT !.priority = 0 ],
              [ TaskA EXCEPT !.title = <<" ">> ]})
  \/ RemoveTask({1})
  \/ UpdateTaskStatus({1})
  \/ UpdateTask({1, 2}, DataUpdateInputs)
  \/ MarkMultipleCompleted({ <<1, 2>> })
  \/ UpdatePriorities({ <<2>>, <<1, 2>> }, {0, 5, Fraction})

SpecData == Init /\ [][NextData]_vars

\* Every operation that returns a state, and the sorts and selections, while
\* time passes: what happens to the order of the container.
NextOrder ==
  \/ Tick
  \/ AddTask({TaskA})
  \/ RemoveTask({1, 2})
  \/ UpdateTaskStatus({2})
  \/ UpdateTask({1, MaxIds}, { [ NoUpdate EXCEPT !.priority = Some(3) ],
                               [ NoUpdate EXCEPT !.deadline = Some(0) ] })
  \/ MarkMultipleCompleted({ <<MaxIds, 1>> })
  \/ UpdatePriorities({ <<MaxIds, 2>> }, {5})
  \/ SortTasksByPriority
  \/ SortTasksByDeadline
  \/ GetNextTask
  \/ GetNextTaskByDeadline

SpecOrder == Init /\ [][NextOrder]_vars

\* Counts to take: none, fewer than, as many as and more than the tasks
\* there can be, and a negative one.
TakeInputs == { -1, 0, 1, 2, MaxListLen, MaxListLen + 1 }

\* The composed query next to the selection it is compared with, on every
\* given state.
NextCompose ==
  \/ GetNextTask
  \/ GetTopPriorityTasks(TakeInputs)

SpecCompose == InitSelect /\ [][NextCompose]_vars

\* ------------------------------------------------------------------ claims
IdsOf(s) == { s[i].id : i \in 1 .. Len(s) }

IdSetOf(taskIds) == { taskIds[i] : i \in 1 .. Len(taskIds) }

Blank(title) == \A i \in 1 .. Len(title) : title[i] \in Whitespace

InRange(priority) == priority >= 1 /\ priority <= 5

\* The elements of s at the positions in keep, in the order of s.
Kept(s, keep) ==
  [ k \in 1 .. Cardinality(keep) |->
      s[CHOOSE i \in keep : Cardinality({ j \in keep : j <= i }) = k] ]

\* C1: for a valid input (priority in 1..5, title not blank) addTask returns
\* the tasks of its input state followed by one new task, placed last: the
\* count grows by one, the new task is pending, has no completion timestamp,
\* carries the given title, description, priority and deadline and an
\* identifier the input state does not hold; the input state keeps its content.
C1_AddTaskAppends ==
  (op = "addTask" /\ InRange(args.priority) /\ ~Blank(args.title)) =>
    /\ out = "ok"
    /\ Len(state) = Len(prev) + 1
    /\ \A i \in 1 .. Len(prev) : state[i] = prev[i]
    /\ LET t == state[Len(state)]
       IN  /\ t.status = "pending"
           /\ t.completedAt = None
           /\ t.title = args.title
           /\ t.description = args.description
           /\ t.priority = args.priority
           /\ t.deadline = args.deadline
           /\ t.id \notin IdsOf(prev)
    /\ argAfter = prev

C1_Witness ==
  /\ op = "addTask"
  /\ out = "ok"
  /\ Len(prev) = 1
  /\ Len(state) = 2
  /\ state[2].title # state[1].title

\* C2: no operation changes the state (or a task) passed to it: after
\* every call, whether it returned a state, a value, a failure or raised, the
\* object passed in has the content it had before the call; and when the call
\* produced no new state the caller's state is what it was.
C2_InputsIntact ==
  /\ argAfter = prev
  /\ (out # "ok" \/ op \notin { "addTask", "removeTask", "updateTaskStatus",
                                "markInProgress", "markCompleted", "updateTask",
                                "markMultipleCompleted", "updatePriorities" })
       => state = prev

C2_Witness ==
  /\ op = "markCompleted"
  /\ Len(prev) = 2
  /\ state # prev
  /\ argAfter = prev

\* C3: addTask raises exactly when the priority is below 1 or above 5 or the
\* title is blank; it never returns a failure value; when it raises no state
\* is produced and the input state and the caller's state are unchanged.
C3_AddTaskFailsFast ==
  op = "addTask" =>
    /\ out \in { "ok", "throw" }
    /\ (out = "throw") <=> (args.priority < 1 \/ args.priority > 5 \/ Blank(args.title))
    /\ out = "throw" => (state = prev /\ argAfter = prev)

C3_Witness ==
  /\ op = "addTask"
  /\ out = "throw"
  /\ InRange(args.priority)
  /\ args.title = <<" ">>
  /\ Len(prev) = 1

\* C4: removeTask returns the tasks whose identifier differs from the given
\* one, in their order, without signalling an error; with no match the content
\* is that of the input; and removing from the result of a successful addTask
\* the identifier of the task just added gives back the task sequence addTask
\* was given.
C4_RemoveTaskFilters ==
  /\ op = "removeTask" =>
       /\ out = "ok"
       /\ state = Kept(prev, { i \in 1 .. Len(prev) : prev[i].id # args.taskId })
       /\ (args.taskId \notin IdsOf(prev) => state = prev)
  /\ (op = "addTask" /\ out = "ok") =>
       /\ removeTask(state, state[Len(state)].id).res = prev
       /\ Len(removeTask(state, state[Len(state)].id).res) = Len(prev)

\* removeTask has just removed the task most recently added, the last of two.
C4_Witness ==
  /\ op = "removeTask"
  /\ Len(prev) = 2
  /\ prev[2].id = args.taskId
  /\ args.taskId = nextId - 1
  /\ state = <<prev[1]>>

\* C5 (as claimed): markCompleted on a task that is already completed is a
\* no-op: status and completion timestamp stay as the first call set them.
C5_MarkCompletedIdempotent ==
  (op = "markCompleted" /\
   \E i \in 1 .. Len(prev) :
      prev[i].id = args.taskId /\ prev[i].status = "completed") =>
    state = prev

\* C6: updateTask returns a failure value exactly when the identifier is
\* absent (reported as not found whatever the patch holds) or the identifier
\* is present and the patch supplies a priority outside 1..5; it never raises;
\* on failure the input state is unchanged.
C6_UpdateTaskFailures ==
  op = "updateTask" =>
    LET absent == args.taskId \notin IdsOf(prev)
        badPriority == /\ args.taskUpdate.priority # None
                       /\ ~InRange(args.taskUpdate.priority[1])
    IN  /\ out \in { "ok", "fail" }
        /\ (out = "fail") <=> (absent \/ badPriority)
        /\ absent => ret = "Task with id not found"
        /\ (~absent /\ badPriority) => ret = "Priority must be between 1 and 5"
        /\ out = "fail" => (state = prev /\ argAfter = prev)

C6_Witness ==
  /\ op = "updateTask"
  /\ out = "fail"
  /\ Len(prev) = 1
  /\ args.taskId \notin IdsOf(prev)
  /\ args.taskUpdate.priority = Some(6)

\* C7 (as claimed): on success the matching task has every supplied field
\* equal to the supplied value (a deadline supplied as null leaves the task
\* without a deadline), every other field as before, and every other task is
\* as before.
C7_UpdateTaskOverwrites ==
  (op = "updateTask" /\ out = "ok") =>
    /\ Len(state) = Len(prev)
    /\ \A i \in 1 .. Len(prev) :
         LET old == prev[i]
             new == state[i]
             u   == args.taskUpdate
         IN  IF old.id # args.taskId THEN new = old
             ELSE /\ new.title = (IF u.title = None THEN old.title ELSE u.title[1])
                  /\ new.description = (IF u.description = None THEN old.description
                                        ELSE u.description[1])
                  /\ new.priority = (IF u.priority = None THEN old.priority
                                     ELSE u.priority[1])
                  /\ new.deadline = (IF u.deadline = None THEN old.deadline
                                     ELSE IF u.deadline = Some(Null) THEN None
                                     ELSE u.deadline)
                  /\ new.id = old.id
                  /\ new.status = old.status
                  /\ new.createdAt = old.createdAt
                  /\ new.completedAt = old.completedAt

\* C8: updatePriorities fails exactly when the priority is outside 1..5,
\* whatever the identifiers, and then changes nothing; otherwise it succeeds
\* and every task whose identifier is listed has the new priority and is
\* otherwise as before, and every other task is as before.
C8_UpdatePrioritiesAllOrNothing ==
  op = "updatePriorities" =>
    /\ out \in { "ok", "fail" }
    /\ (out = "fail") <=> ~InRange(args.newPriority)
    /\ out = "fail" => (state = prev /\ argAfter = prev)
    /\ out = "ok" =>
         /\ Len(state) = Len(prev)
         /\ \A i \in 1 .. Len(prev) :
              state[i] = IF prev[i].id \in IdSetOf(args.taskIds)
                         THEN [ prev[i] EXCEPT !.priority = args.newPriority ]
                         ELSE prev[i]

C8_Witness ==
  /\ op = "updatePriorities"
  /\ out = "ok"
  /\ Len(prev) = 2
  /\ state[1].priority = args.newPriority
  /\ state[1] # prev[1]
  /\ prev[2].id \notin IdSetOf(args.taskIds)
  /\ state[2] = prev[2]

\* C9: markMultipleCompleted completes, with the one clock value read for the
\* call, exactly the listed tasks that are not completed yet; completed tasks
\* keep their timestamp, unlisted tasks are as before, and listed identifiers
\* that match no task are ignored.
C9_MarkMultipleCompleted ==
  op = "markMultipleCompleted" =>
    /\ out = "ok"
    /\ Len(state) = Len(prev)
    /\ \A i \in 1 .. Len(prev) :
         state[i] = IF /\ prev[i].id \in IdSetOf(args.taskIds)
                       /\ prev[i].status # "completed"
                    THEN [ prev[i] EXCEPT !.status = "completed",
                                          !.completedAt = Some(now) ]
                    ELSE prev[i]
    /\ (IdSetOf(args.taskIds) \cap IdsOf(prev) = {}) => state = prev

\* One listed task was completed earlier and keeps its timestamp, the other
\* is completed by this call, and a listed identifier matches no task.
C9_Witness ==
  /\ op = "markMultipleCompleted"
  /\ Len(prev) = 2
  /\ IdSetOf(args.taskIds) \ IdsOf(prev) # {}
  /\ \E i, j \in 1 .. 2 :
       /\ prev[i].id \in IdSetOf(args.taskIds)
       /\ prev[i].status = "completed"
       /\ state[i].completedAt # Some(now)
       /\ prev[j].id \in IdSetOf(args.taskIds)
       /\ prev[j].status # "completed"
       /\ state[j].completedAt = Some(now)

\* C10: in every reachable state the statistics count every task once:
\* total is the number of tasks, pending, inProgress and completed are the
\* numbers of tasks of each status, and they add up to total.
C10_StatisticsPartition ==
  LET stats == getStatistics(state, now).res
      count(status) == Cardinality({ i \in 1 .. Len(state) : state[i].status = status })
  IN  /\ stats.total = Len(state)
      /\ stats.pending = count("pending")
      /\ stats.inProgress = count("in-progress")
      /\ stats.completed = count("completed")
      /\ stats.pending + stats.inProgress + stats.completed = stats.total
      /\ op = "getStatistics" => ret = stats

C10_Witness ==
  /\ op = "getStatistics"
  /\ ret.total = 2
  /\ ret.inProgress = 1
  /\ ret.completed = 1

\* C11: a task is overdue exactly when it has a deadline, its status is not
\* completed and its deadline is strictly before the current time (a deadline
\* equal to the current time is not overdue); getOverdueTasks returns exactly
\* those tasks in container order and leaves the state alone, and
\* getStatistics.overdue is their number, counted on top of the status counts.
OverdueAt(s, clock) ==
  { i \in 1 .. Len(s) : /\ s[i].deadline # None
                        /\ s[i].status # "completed"
                        /\ s[i].deadline[1] < clock }

C11_OverdueTasks ==
  /\ op = "getOverdueTasks" =>
       /\ ret = Kept(prev, OverdueAt(prev, now))
       /\ \A i \in 1 .. Len(ret) :
            /\ ret[i].status # "completed"
            /\ ret[i].deadline # None
            /\ ret[i].deadline[1] # now
       /\ state = prev
  /\ op = "getStatistics" =>
       /\ ret.overdue = Cardinality(OverdueAt(prev, now))
       /\ ret.pending + ret.inProgress + ret.completed = ret.total
       /\ state = prev

\* An overdue pending task is listed, and a task whose deadline is the
\* current instant is not.
C11_Witness ==
  /\ op = "getOverdueTasks"
  /\ Len(state) = 2
  /\ \E i, j \in 1 .. 2 :
       /\ state[i].status # "completed" /\ state[i].deadline = Some(now)
       /\ state[j].status # "completed" /\ state[j].deadline # None
       /\ state[j].deadline[1] < now
       /\ ret = << state[j] >>

\* C12: sortByPriority returns a permutation of its input in non-increasing
\* priority order, tasks of equal priority keeping the relative order they
\* had in the input, and the input list is not reordered.
Pos(s, id) == CHOOSE i \in 1 .. Len(s) : s[i].id = id

IsPermutationOf(sorted, tasks) ==
  /\ Len(sorted) = Len(tasks)
  /\ IdsOf(sorted) = IdsOf(tasks)
  /\ \A k \in 1 .. Len(sorted) : sorted[k] = tasks[Pos(tasks, sorted[k].id)]

C12_SortByPriority ==
  op = "sortTasksByPriority" =>
    /\ IsPermutationOf(ret, prev)
    /\ \A k, m \in 1 .. Len(ret) :
         k < m => /\ ret[k].priority >= ret[m].priority
                  /\ ret[k].priority = ret[m].priority
                       => Pos(prev, ret[k].id) < Pos(prev, ret[m].id)
    /\ argAfter = prev
    /\ state = prev

\* Three tasks, two of them tied, are actually moved by the sort.
C12_Witness ==
  /\ op = "sortTasksByPriority"
  /\ Len(ret) = 3
  /\ ret # prev
  /\ ret[2].priority = ret[3].priority
  /\ ret[1].priority > ret[2].priority

\* C13: sortByDeadline returns a permutation of its input in which every task
\* with a deadline comes before every task without one; the tasks with a
\* deadline are in ascending deadline order, equal deadlines in input order;
\* the tasks without a deadline keep their input order; the input list is not
\* changed.
C13_SortByDeadline ==
  op = "sortTasksByDeadline" =>
    /\ IsPermutationOf(ret, prev)
    /\ \A k, m \in 1 .. Len(ret) :
         k < m =>
           /\ ret[k].deadline = None => ret[m].deadline = None
           /\ (ret[k].deadline # None /\ ret[m].deadline # None) =>
                /\ ret[k].deadline[1] <= ret[m].deadline[1]
                /\ ret[k].deadline[1] = ret[m].deadline[1]
                     => Pos(prev, ret[k].id) < Pos(prev, ret[m].id)
           /\ (ret[k].deadline = None /\ ret[m].deadline = None) =>
                Pos(prev, ret[k].id) < Pos(prev, ret[m].id)
    /\ argAfter = prev
    /\ state = prev

\* A task without a deadline that was first is moved behind two tasks with
\* the same deadline, which keep their order.
C13_Witness ==
  /\ op = "sortTasksByDeadline"
  /\ Len(ret) = 3
  /\ prev[1].deadline = None
  /\ ret[1].deadline # None
  /\ ret[1].deadline = ret[2].deadline
  /\ ret[3] = prev[1]

\* C14: getNextTask returns null exactly when the state has no pending task;
\* otherwise it returns a pending task whose priority is the greatest among
\* the pending tasks and, among those of that priority, the one inserted
\* first.  It never returns an in-progress or completed task.
PendingIn(s) == { i \in 1 .. Len(s) : s[i].status = "pending" }

C14_GetNextTask ==
  op = "getNextTask" =>
    /\ ret = None <=> PendingIn(prev) = {}
    /\ ret # None =>
         \E i \in PendingIn(prev) :
           /\ ret = Some(prev[i])
           /\ \A j \in PendingIn(prev) :
                /\ prev[j].priority <= prev[i].priority
                /\ prev[j].priority = prev[i].priority => i <= j
    /\ state = prev

\* The first task has the top priority but is not pending; of the two
\* pending tasks tied below it, the earlier one is returned.
C14_Witness ==
  /\ op = "getNextTask"
  /\ Len(prev) = 3
  /\ prev[1].status = "in-progress" /\ prev[1].priority = 5
  /\ prev[2].status = "pending" /\ prev[3].status = "pending"
  /\ prev[2].priority = prev[3].priority /\ prev[2].priority < 5
  /\ ret = Some(prev[2])

\* C15: getNextTaskByDeadline returns null exactly when the state has no
\* pending task; otherwise the pending task with the earliest deadline, the
\* one inserted first among equal deadlines; when no pending task has a
\* deadline, the pending task inserted first.
DatedPendingIn(s) == { i \in PendingIn(s) : s[i].deadline # None }

C15_GetNextTaskByDeadline ==
  op = "getNextTaskByDeadline" =>
    /\ ret = None <=> PendingIn(prev) = {}
    /\ DatedPendingIn(prev) # {} =>
         \E i \in DatedPendingIn(prev) :
           /\ ret = Some(prev[i])
           /\ \A j \in DatedPendingIn(prev) :
                /\ prev[i].deadline[1] <= prev[j].deadline[1]
                /\ prev[i].deadline[1] = prev[j].deadline[1] => i <= j
    /\ (PendingIn(prev) # {} /\ DatedPendingIn(prev) = {}) =>
         \E i \in PendingIn(prev) :
           /\ ret = Some(prev[i])
           /\ \A j \in PendingIn(prev) : i <= j
    /\ state = prev

\* A pending task without a deadline comes first; of the two pending tasks
\* with the same deadline behind it, the earlier one is returned.
C15_Witness ==
  /\ op = "getNextTaskByDeadline"
  /\ Len(prev) = 3
  /\ \A i \in 1 .. 3 : prev[i].status = "pending"
  /\ prev[1].deadline = None
  /\ prev[2].deadline # None /\ prev[2].deadline = prev[3].deadline
  /\ ret = Some(prev[2])

\* C16: the scripted run.  From the empty state, add A (priority 5, no
\* deadline), then B (priority 2, a deadline in the past): getNextTask returns
\* A and getOverdueTasks returns exactly B.  After markCompleted on B's id,
\* getOverdueTasks returns the empty list and getStatistics returns total 2,
\* pending 1, inProgress 0, completed 1, overdue 0.  (The queries leave the
\* state alone, so each step of the script is recognised by the state it is
\* made on.)
IsA(task) == task.priority = 5 /\ task.deadline = None /\ task.status = "pending"

IsB(task, status, clock) ==
  /\ task.priority = 2
  /\ task.deadline # None
  /\ task.deadline[1] < clock
  /\ task.status = status

AfterBothAdded(s, clock) == Len(s) = 2 /\ IsA(s[1]) /\ IsB(s[2], "pending", clock)

AfterBCompleted(s, clock) == Len(s) = 2 /\ IsA(s[1]) /\ IsB(s[2], "completed", clock)

C16_ScriptedRun ==
  /\ (op = "addTask" /\ out = "ok" /\ prev = createInitialState
        /\ args.priority = 5 /\ args.deadline = None)
       => (Len(state) = 1 /\ IsA(state[1]))
  /\ (op = "addTask" /\ out = "ok" /\ Len(prev) = 1 /\ IsA(prev[1])
        /\ args.priority = 2 /\ args.deadline # None /\ args.deadline[1] < now)
       => AfterBothAdded(state, now)
  /\ (op = "getNextTask" /\ AfterBothAdded(prev, now))
       => ret = Some(prev[1])
  /\ (op = "getOverdueTasks" /\ AfterBothAdded(prev, now))
       => ret = << prev[2] >>
  /\ (op = "markCompleted" /\ AfterBothAdded(prev, now) /\ args.taskId = prev[2].id)
       => (AfterBCompleted(state, now) /\ state[1] = prev[1])
  /\ (op = "getOverdueTasks" /\ AfterBCompleted(prev, now))
       => ret = << >>
  /\ (op = "getStatistics" /\ AfterBCompleted(prev, now))
       => ret = [ total |-> 2, pending |-> 1, inProgress |-> 0,
                  completed |-> 1, overdue |-> 0 ]

\* The end of the script: the statistics of the state in which B is completed.
C16_Witness ==
  /\ op = "getStatistics"
  /\ AfterBCompleted(prev, now)
  /\ prev[2].completedAt # None
  /\ ret.total = 2 /\ ret.completed = 1 /\ ret.overdue = 0

\* C17: in every state reachable by addTask, removeTask, updateTaskStatus,
\* updateTask, markMultipleCompleted and updatePriorities, every task's
\* priority is an integer in the inclusive range 1..5.
C17_PriorityInRange ==
  \A i \in 1 .. Len(state) : state[i].priority \in 1 .. 5

\* C18: in every state reachable by those operations, including updateTask
\* calls that supply a title, every task's title is non-empty after trimming.
C18_TitleNotBlank ==
  \A i \in 1 .. Len(state) : ~Blank(state[i].title)

\* C19 (as claimed): in every reachable state a task has a completion
\* timestamp if and only if its status is completed.
C19_CompletedAtIffCompleted ==
  \A i \in 1 .. Len(state) :
    state[i].completedAt # None <=> state[i].status = "completed"

\* C20: updateTaskStatus (and markInProgress, markCompleted, which call it)
\* has no transition guard and changes only the matching task: whatever its
\* status was, the matching task ends with newStatus; its completion
\* timestamp becomes the current time when newStatus is completed and is
\* otherwise left as it was, not cleared; every other field and every other
\* task is unchanged; an identifier that matches no task gives identical
\* content.  The input state is left alone.
NewStatusOf(name, a) ==
  CASE name = "updateTaskStatus" -> a.newStatus
    [] name = "markInProgress"   -> "in-progress"
    [] name = "markCompleted"    -> "completed"

C20_UpdateTaskStatus ==
  op \in { "updateTaskStatus", "markInProgress", "markCompleted" } =>
    LET newStatus == NewStatusOf(op, args)
    IN  /\ out = "ok"
        /\ Len(state) = Len(prev)
        /\ \A i \in 1 .. Len(prev) :
             IF prev[i].id = args.taskId
             THEN /\ state[i].status = newStatus
                  /\ state[i].completedAt =
                       IF newStatus = "completed" THEN Some(now)
                       ELSE prev[i].completedAt
                  /\ [ state[i] EXCEPT !.status = "pending", !.completedAt = None ]
                       = [ prev[i] EXCEPT !.status = "pending", !.completedAt = None ]
             ELSE state[i] = prev[i]
        /\ args.taskId \notin IdsOf(prev) => state = prev
        /\ argAfter = prev

\* A completed task is reopened later and keeps its old completion
\* timestamp, next to a task that is not touched.
C20_Witness ==
  /\ op = "updateTaskStatus"
  /\ args.newStatus = "pending"
  /\ Len(prev) = 2
  /\ \E i \in 1 .. 2 :
       /\ prev[i].id = args.taskId
       /\ prev[i].status = "completed"
       /\ state[i].status = "pending"
       /\ state[i].completedAt # None
       /\ state[i].completedAt[1] < now

\* C21: the sequence of task identifiers changes only by addTask (one fresh
\* identifier appended at the end) and removeTask (the matching identifier
\* deleted, the others in their order); updateTaskStatus, updateTask,
\* markMultipleCompleted and updatePriorities keep the identifiers, their
\* order and the creation timestamps; sorts and queries leave the container
\* as it is.  Hence identifiers are pairwise distinct and tasks are in
\* insertion order in every reachable state.
IdSeq(s) == [ i \in 1 .. Len(s) |-> s[i].id ]

CreatedAtSeq(s) == [ i \in 1 .. Len(s) |-> s[i].createdAt ]

C21_InsertionOrder ==
  /\ (op = "addTask" /\ out = "ok") =>
       /\ Len(state) = Len(prev) + 1
       /\ IdSeq(state) = Append(IdSeq(prev), state[Len(state)].id)
       /\ state[Len(state)].id \notin IdsOf(prev)
       /\ CreatedAtSeq(state) = Append(CreatedAtSeq(prev), now)
  /\ (op = "addTask" /\ out = "throw") => state = prev
  /\ op = "removeTask" =>
       /\ IdSeq(state) = SelectSeq(IdSeq(prev), LAMBDA id : id # args.taskId)
       /\ \A i \in 1 .. Len(state) : state[i] = prev[Pos(prev, state[i].id)]
  /\ op \in { "updateTaskStatus", "markInProgress", "markCompleted", "updateTask",
              "markMultipleCompleted", "updatePriorities" } =>
       /\ IdSeq(state) = IdSeq(prev)
       /\ CreatedAtSeq(state) = CreatedAtSeq(prev)
  /\ op \in { "sortTasksByPriority", "sortTasksByDeadline", "getNextTask",
              "getNextTaskByDeadline", "tick" } =>
       state = prev
  /\ \A i, j \in 1 .. Len(state) :
       i < j => /\ state[i].id # state[j].id
                /\ state[i].id < state[j].id
                /\ state[i].createdAt <= state[j].createdAt

\* After a removal and a later addition, a sort returns the two tasks in the
\* other order and the container keeps its own.
C21_Witness ==
  /\ op = "sortTasksByPriority"
  /\ Len(state) = 2
  /\ state[1].id > 1
  /\ state[1].createdAt < state[2].createdAt
  /\ ret = << state[2], state[1] >>

\* C22: for every n >= 0, getTopPriorityTasks(state, n) returns the first
\* min(n, number of pending tasks) elements of the pending tasks in descending
\* priority order, ties in insertion order: only pending tasks, each at most
\* once, every pending task left out ranking after every task returned; for
\* n >= 1 its first element is the task getNextTask returns, and it is empty
\* exactly when getNextTask returns null.  The state is left alone.
RanksBefore(s, i, j) ==
  \/ s[i].priority > s[j].priority
  \/ (s[i].priority = s[j].priority /\ i < j)

C22_GetTopPriorityTasks ==
  (op = "getTopPriorityTasks" /\ args.n >= 0) =>
    LET pending == PendingIn(prev)
        count   == Cardinality(pending)
        at(k)   == Pos(prev, ret[k].id)
    IN  /\ Len(ret) = IF args.n < count THEN args.n ELSE count
        /\ \A k \in 1 .. Len(ret) :
             /\ ret[k].id \in IdsOf(prev)
             /\ ret[k] = prev[at(k)]
             /\ at(k) \in pending
        /\ \A k, m \in 1 .. Len(ret) : k < m => RanksBefore(prev, at(k), at(m))
        /\ \A j \in pending :
             (\A k \in 1 .. Len(ret) : at(k) # j) =>
               \A k \in 1 .. Len(ret) : RanksBefore(prev, at(k), j)
        /\ args.n >= 1 =>
             /\ ret = << >> <=> getNextTask(prev).res = None
             /\ ret # << >> => getNextTask(prev).res = Some(ret[1])
        /\ state = prev

\* Two of three pending tasks are taken: the later task of top priority
\* first, then the earlier of the two tied below it; a task that is not
\* pending is skipped.
C22_Witness ==
  /\ op = "getTopPriorityTasks"
  /\ args.n = 2
  /\ Len(prev) = MaxListLen
  /\ Cardinality(PendingIn(prev)) = 2
  /\ prev[1].status # "pending"
  /\ prev[2].priority < prev[3].priority
  /\ ret = << prev[3], prev[2] >>

\* C23: in every reachable state every completed task has a completion
\* timestamp.  A task that becomes completed gets its timestamp in the same
\* step, and no operation takes a timestamp away from a task it keeps (a
\* reopened task keeps its own).
C23_CompletedHasTimestamp ==
  /\ \A i \in 1 .. Len(state) :
       state[i].status = "completed" =>
         /\ state[i].completedAt # None
         /\ state[i].completedAt[1] <= now
  /\ \A i \in 1 .. Len(state), j \in 1 .. Len(prev) :
       state[i].id = prev[j].id =>
         /\ (prev[j].status # "completed" /\ state[i].status = "completed")
              => state[i].completedAt = Some(now)
         /\ prev[j].completedAt # None => state[i].completedAt # None

\* A batch completes one task at the current time next to a task that was
\* completed earlier and reopened, which still carries its timestamp.
C23_Witness ==
  /\ op = "markMultipleCompleted"
  /\ Len(state) = 2
  /\ \E i, j \in 1 .. 2 :
       /\ prev[i].status # "completed"
       /\ state[i].status = "completed"
       /\ state[i].completedAt = Some(now)
       /\ state[j].status # "completed"
       /\ state[j].completedAt # None
       /\ state[j].completedAt[1] < now
====
